---- MODULE Spec2Model ----
(***************************************************************************)
(* Transactional catalog set (CatalogSet: CreateEntry, GetEntry,           *)
(* EntryExists, Undo) and the per-vector update chains of a column segment *)
(* (Segment::Update, CheckForConflicts, CreateUpdateInfo), driven by the   *)
(* transaction manager (begin / commit / abort).                           *)
(*                                                                         *)
(* Version nodes live in an arena: a handle is an index into `nodes`, the  *)
(* handle 0 is the null pointer.  A node whose owning unique_ptr has been  *)
(* destroyed stays in the arena with freed = TRUE, so that a raw pointer   *)
(* that still holds its address (a dangling pointer) can be told apart     *)
(* from a null pointer.                                                    *)
(***************************************************************************)
EXTENDS Integers, Sequences, FiniteSets, TLC

\* ---------------------------------------------------------------- bounds
MaxTxn == 2
MaxName == 1
MaxAlter == 1
MaxThread == 2
MaxScan == 1
MaxAlias == 2
MaxSel == 3
MaxConstant == 1

\* first transaction id; every commit timestamp stays below it
TRANSACTION_ID_START == 100

\* rows per vector (scaled down)
STANDARD_VECTOR_SIZE == 2

\* block ids below MAXIMUM_BLOCK are immutable disk blocks (scaled down)
MAXIMUM_BLOCK == 1

\* `offset`: the row id of the first row of the segment
SegmentStart == 4

Names == 1..MaxName

VARIABLES
    nodes,          \* arena of AbstractCatalogEntry: Seq of records
    data,           \* CatalogSet::data : name -> handle of the head (0: no map entry)
    catalog_lock,   \* CatalogSet::catalog_lock : 0 (free) or the index of the holder
    txn,            \* the transactions begun so far, in begin order
    last_commit,    \* transaction manager: highest commit timestamp handed out
    crashed,        \* the process died on a use-after-free
    ret,            \* the last completed catalog call and what it returned
    alters,         \* number of AlterEntry calls so far (bounded by MaxAlter)
    build,          \* "debug": assert() is compiled in; "release": it is not
    block_id,       \* Segment::block_id
    max_vector_count, \* Segment::max_vector_count, fixed at construction
    lock,           \* Segment::lock : the reader/writer lock of the segment
    thread,         \* what each storage thread is in the middle of
    conversions,    \* history: the block copies ToTemporary has made
    versions,       \* Segment::versions : <<>> (null) or one chain head per vector
    infos,          \* arena of UpdateInfo: Seq of records
    base,           \* the base data of the segment's block : row id -> value
    seg_ret,        \* the last completed segment call and how it ended
    context,        \* the BindContexts of the query being bound
    added,          \* history: per context, the aliases in the order they came in
    bind_ret        \* the last completed BindContext call and what it produced

catvars == <<nodes, data, catalog_lock, txn, last_commit, crashed, ret, alters>>
catvars_but_ret == <<nodes, data, catalog_lock, txn, last_commit, crashed, alters>>
segfixed == <<build, max_vector_count>>
segvars == <<build, block_id, max_vector_count, lock, thread, conversions,
             versions, infos, base, seg_ret>>
bndvars == <<context, added, bind_ret>>
vars == <<catvars, segvars, bndvars>>

Rows == SegmentStart..(SegmentStart + max_vector_count * STANDARD_VECTOR_SIZE - 1)

Threads == 1..MaxThread

\* a cell of the block: the bit of the nullmask and the data slot under it
Cell(null, val) == [null |-> null, val |-> val]

\* history: the row has not been written
NoCell == Cell(FALSE, -1)

\* the value a transaction writes is tagged with its index; the block starts
\* out all 0, no NULLs
UpdateValues(t) == {Cell(FALSE, t)}

\* a NULL written by a transaction
NullValues(t) == {Cell(TRUE, t)}

\* ------------------------------------------------------------- the arena
NoRet == [op |-> "none", txn |-> 0, name |-> 0, res |-> 0, exc |-> FALSE]

NoSegRet == [op |-> "none", txn |-> 0, ids |-> <<>>, exc |-> "none", res |-> <<>>]

Min(S) == CHOOSE x \in S : \A y \in S : x <= y

NewNode(name, ts, del) ==
    [name |-> name, timestamp |-> ts, deleted |-> del, child |-> 0, parent |-> 0,
     freed |-> FALSE]

\* the handles reached from h by following child links, newest first
RECURSIVE ChainFrom(_, _, _)
ChainFrom(ns, h, fuel) ==
    IF h = 0 \/ fuel = 0 THEN <<>>
    ELSE <<h>> \o ChainFrom(ns, ns[h].child, fuel - 1)

Chain(ns, h) == ChainFrom(ns, h, Len(ns))

\* ~unique_ptr<AbstractCatalogEntry>: destroys the node and the children it owns
DestroyChain(ns, h) ==
    LET dead == {Chain(ns, h)[i] : i \in 1..Len(Chain(ns, h))}
    IN [i \in 1..Len(ns) |-> IF i \in dead THEN [ns[i] EXCEPT !.freed = TRUE] ELSE ns[i]]

\* ------------------------------------------------- transaction manager
\* history: what a transaction found under a name before it first wrote it
NoSnapshot ==
    [inmap |-> FALSE, chain |-> <<>>, versions |-> <<>>,
     sees |-> [start \in 0..MaxTxn |-> 0]]

TxnIds == 1..Len(txn)

NewTransaction(n, start) ==
    [transaction_id |-> TRANSACTION_ID_START + n - 1,
     start_time |-> start,
     status |-> "active",
     conflicted |-> FALSE,
     undo |-> <<>>,
     updates |-> <<>>,
     \* history, not program state:
     concurrent |-> {i \in TxnIds : txn[i].status = "active"},
     wrote |-> {},
     pre |-> [k \in Names |-> NoSnapshot],
     puts |-> [r \in Rows |-> NoCell]]

CanRun(t) ==
    /\ ~crashed
    /\ t \in TxnIds
    /\ txn[t].status = "active"

Begin ==
    /\ ~crashed
    /\ Len(txn) < MaxTxn
    /\ txn' = Append(txn, NewTransaction(Len(txn) + 1, last_commit))
    /\ ret' = NoRet
    /\ seg_ret' = NoSegRet
    /\ UNCHANGED <<nodes, data, catalog_lock, last_commit, crashed, alters>>
    /\ UNCHANGED <<build, block_id, versions, infos, base>>
    /\ UNCHANGED <<max_vector_count, lock, thread, conversions>>
    /\ UNCHANGED bndvars

\* lock_guard<mutex> lock(catalog_lock) at the top of every CatalogSet call
Lock(t) ==
    /\ CanRun(t)
    /\ ~txn[t].conflicted
    /\ catalog_lock = 0
    /\ catalog_lock' = t
    /\ ret' = NoRet
    /\ UNCHANGED <<nodes, data, txn, last_commit, crashed, alters>>
    /\ UNCHANGED segvars
    /\ UNCHANGED bndvars

\* what the lock_guard leaves in catalog_lock when the call ends, by return or by
\* stack unwinding
MutLockKeptOnThrow(t, threw) == IF threw THEN t ELSE 0

LockAfterCall(t, threw) == 0

\* --------------------------------- CatalogSet::GetEntry / EntryExists
\* current->timestamp == transaction.transaction_id: we created this version
OwnVersion(node, tr) == node.timestamp = tr.transaction_id

MutCommittedBeforeOrAt(node, tr) == node.timestamp <= tr.start_time

\* current->timestamp < transaction.start_time: committed before we started
CommittedBefore(node, tr) == node.timestamp < tr.start_time

\* while (current->child) { if own break; if committed before break; current = child }
RECURSIVE WalkChain(_, _, _)
WalkChain(ns, cur, tr) ==
    IF ns[cur].child = 0 THEN cur
    ELSE IF OwnVersion(ns[cur], tr) THEN cur
    ELSE IF CommittedBefore(ns[cur], tr) THEN cur
    ELSE WalkChain(ns, ns[cur].child, tr)

\* the entry GetEntry returns: 0 is nullptr
GetEntryResult(ns, d, tr, name) ==
    IF d[name] = 0 THEN 0
    ELSE LET cur == WalkChain(ns, d[name], tr)
         IN IF ns[cur].deleted THEN 0 ELSE cur

\* what EntryExists returns
EntryExistsResult(ns, d, tr, name) ==
    IF d[name] = 0 THEN FALSE
    ELSE ~ns[WalkChain(ns, d[name], tr)].deleted

\* ------------------------------------------------ CatalogSet::CreateEntry
\* the state of `name` before a call: history kept for the transaction
IsSentinel(node) == node.timestamp = 0 /\ node.deleted /\ node.child = 0

\* a reader that began when the highest commit timestamp was `start` and wrote nothing
Reader(start) == [transaction_id |-> -1, start_time |-> start]

Snapshot(name) ==
    LET c == Chain(nodes, data[name])
        real == SelectSeq(c, LAMBDA h : ~IsSentinel(nodes[h]))
    IN [inmap |-> data[name] # 0,
        chain |-> [i \in 1..Len(c) |-> [h |-> c[i], node |-> nodes[c[i]]]],
        versions |-> [i \in 1..Len(real) |->
                        [h |-> real[i], timestamp |-> nodes[real[i]].timestamp,
                         deleted |-> nodes[real[i]].deleted]],
        sees |-> [start \in 0..MaxTxn |->
                    GetEntryResult(nodes, data, Reader(start), name)]]


MutWriteConflictAnyHead(current) == TRUE

\* current.timestamp >= TRANSACTION_ID_START: written by an active transaction
WriteConflict(current) == current.timestamp >= TRANSACTION_ID_START

MutEntryAliveNever(current) == FALSE

\* !current.deleted: the committed current version has not been deleted
EntryAlive(current) == ~current.deleted

MutCheckVersionSkipped(current) == "ok"

\* the version check of an existing entry: throw, return false, or go on
CheckVersion(current) ==
    IF WriteConflict(current) THEN "conflict"
    ELSE IF EntryAlive(current) THEN "exists"
    ELSE "ok"

\* make_unique<AbstractCatalogEntry>(catalog, name) with timestamp 0, deleted
DummyNode(name) == NewNode(name, 0, TRUE)

\* value->timestamp = id; value->child = move(data[name]); child->parent = value;
\* data[name] = move(value): the arena after the splice, the new node last
Splice(ns, head, name, tr) ==
    LET v == Len(ns) + 1
        linked == [ns EXCEPT ![head].parent = v]
    IN Append(linked, [NewNode(name, tr.transaction_id, FALSE) EXCEPT !.child = head])

MutPushNothing(tr, entry) == tr

\* transaction.PushCatalogEntry(value->child.get())
PushCatalogEntry(tr, entry) == [tr EXCEPT !.undo = Append(@, entry)]

Remember(tr, name, snap) ==
    [tr EXCEPT !.wrote = @ \cup {name},
               !.pre[name] = IF name \in tr.wrote THEN @ ELSE snap]

CreateEntry(t, name) ==
    /\ CanRun(t)
    /\ catalog_lock = t
    /\ LET fresh == data[name] = 0
           \* the dummy deleted entry of a name never created before
           ns1 == IF fresh THEN Append(nodes, DummyNode(name)) ELSE nodes
           head == IF fresh THEN Len(nodes) + 1 ELSE data[name]
           snap == Snapshot(name)
           verdict == IF fresh THEN "ok" ELSE CheckVersion(nodes[head])
       IN IF verdict = "conflict"
          THEN \* throw TransactionException("Catalog write-write conflict!")
               /\ ret' = [op |-> "CreateEntry", txn |-> t, name |-> name,
                          res |-> 0, exc |-> TRUE]
               /\ txn' = [txn EXCEPT ![t].conflicted = TRUE]
               /\ catalog_lock' = LockAfterCall(t, TRUE)
               /\ UNCHANGED <<nodes, data>>
          ELSE IF verdict = "exists"
          THEN \* return false
               /\ ret' = [op |-> "CreateEntry", txn |-> t, name |-> name,
                          res |-> 0, exc |-> FALSE]
               /\ catalog_lock' = LockAfterCall(t, FALSE)
               /\ UNCHANGED <<nodes, data, txn>>
          ELSE /\ nodes' = Splice(ns1, head, name, txn[t])
               /\ data' = [data EXCEPT ![name] = Len(ns1) + 1]
               /\ txn' = [txn EXCEPT
                            ![t] = Remember(PushCatalogEntry(@, head), name, snap)]
               /\ ret' = [op |-> "CreateEntry", txn |-> t, name |-> name,
                          res |-> 1, exc |-> FALSE]
               /\ catalog_lock' = LockAfterCall(t, FALSE)
    /\ UNCHANGED <<last_commit, crashed, alters>>
    /\ UNCHANGED segvars
    /\ UNCHANGED bndvars

GetEntry(t, name) ==
    /\ CanRun(t)
    /\ catalog_lock = t
    /\ ret' = [op |-> "GetEntry", txn |-> t, name |-> name,
               res |-> GetEntryResult(nodes, data, txn[t], name), exc |-> FALSE]
    /\ catalog_lock' = LockAfterCall(t, FALSE)
    /\ UNCHANGED <<nodes, data, txn, last_commit, crashed, alters>>
    /\ UNCHANGED segvars
    /\ UNCHANGED bndvars

EntryExists(t, name) ==
    /\ CanRun(t)
    /\ catalog_lock = t
    /\ ret' = [op |-> "EntryExists", txn |-> t, name |-> name,
               res |-> IF EntryExistsResult(nodes, data, txn[t], name) THEN 1 ELSE 0,
               exc |-> FALSE]
    /\ catalog_lock' = LockAfterCall(t, FALSE)
    /\ UNCHANGED <<nodes, data, txn, last_commit, crashed, alters>>
    /\ UNCHANGED segvars
    /\ UNCHANGED bndvars

\* CatalogSet::DropEntry: "FIXME implement; return false".  No lock_guard, no
\* lookup, no change to the set.
DropEntry(t, name) ==
    /\ CanRun(t)
    /\ ~txn[t].conflicted
    /\ ret' = [op |-> "DropEntry", txn |-> t, name |-> name, res |-> 0, exc |-> FALSE]
    /\ UNCHANGED <<nodes, data, catalog_lock, txn, last_commit, crashed, alters>>
    /\ UNCHANGED segvars
    /\ UNCHANGED bndvars

\* ----------------------------------------------------- CatalogSet::Undo
\* Undo works on the arena, the map and the crash flag together.  `ub` is the
\* outcome of a write through a dangling pointer: the process dies ("crash") or
\* the write lands in the freed node ("scribble").
UbOutcomes == {"crash", "scribble"}

Undo(st, entry, ub) ==
    LET ns == st.nodes
        parent == ns[entry].parent
        grand == ns[parent].parent
        moved == ns[parent].child
        name == ns[entry].name
    IN IF st.crashed THEN st
       ELSE IF grand # 0
       THEN \* parent->parent->child = move(parent->child)
            IF ns[grand].freed
            THEN IF ub = "crash"
                 THEN [st EXCEPT !.crashed = TRUE]
                 ELSE [st EXCEPT !.nodes = [ns EXCEPT ![parent].child = 0,
                                                      ![grand].child = moved]]
            ELSE LET old == ns[grand].child
                     ns1 == [ns EXCEPT ![parent].child = 0, ![grand].child = moved]
                 IN [st EXCEPT !.nodes = DestroyChain(ns1, old)]
       ELSE \* data[name] = move(parent->child)
            LET old == st.data[name]
                ns1 == [ns EXCEPT ![parent].child = 0]
            IN [st EXCEPT !.nodes = DestroyChain(ns1, old),
                          !.data = [st.data EXCEPT ![name] = moved]]

\* ============================================================== Segment
\* Segment::lock.  GetExclusiveLock waits until there is neither a writer nor a
\* reader; GetSharedLock waits until there is no writer.
NoLock == [exclusive |-> FALSE, read_count |-> 0]

CanGetExclusiveLock(l) == ~l.exclusive /\ l.read_count = 0

CanGetSharedLock(l) == ~l.exclusive

GetExclusiveLock(l) == [l EXCEPT !.exclusive = TRUE]

GetSharedLock(l) == [l EXCEPT !.read_count = @ + 1]

MutWriteLockKeptOnThrow(l, threw) == IF threw THEN l ELSE [l EXCEPT !.exclusive = FALSE]

\* the destructor of write_lock, run on return and on stack unwinding alike
WriteLockAfterCall(l, threw) == [l EXCEPT !.exclusive = FALSE]

IdleThread == [pc |-> "idle", vector_index |-> 0, locks |-> 0]

RECURSIVE SortedSeq(_)
SortedSeq(S) == IF S = {} THEN <<>> ELSE <<Min(S)>> \o SortedSeq(S \ {Min(S)})

VectorOf(row) == (row - SegmentStart) \div STANDARD_VECTOR_SIZE

\* the row-id arguments of Update: non-empty, ascending, inside one vector
IdSets == {S \in SUBSET Rows : S # {} /\ \A r \in S : VectorOf(r) = VectorOf(Min(S))}

\* the update chain of a vector, newest first
RECURSIVE InfoChainFrom(_, _, _)
InfoChainFrom(is, h, fuel) ==
    IF h = 0 \/ fuel = 0 THEN <<>>
    ELSE <<h>> \o InfoChainFrom(is, is[h].next, fuel - 1)

InfoChain(is, h) == InfoChainFrom(is, h, Len(is))

\* the merge loop over the sorted ids and the sorted tuples of one UpdateInfo:
\* TRUE when it throws
RECURSIVE MergeFindsConflict(_, _, _, _, _)
MergeFindsConflict(ids, offset, tuples, i, j) ==
    LET id == ids[i] - offset
    IN IF id = tuples[j] THEN TRUE
       ELSE IF id < tuples[j]
       THEN IF i + 1 > Len(ids) THEN FALSE
            ELSE MergeFindsConflict(ids, offset, tuples, i + 1, j)
       ELSE IF j + 1 > Len(tuples) THEN FALSE
            ELSE MergeFindsConflict(ids, offset, tuples, i, j + 1)

MutAnyForeignWriter(info, tr) == TRUE

\* info->version_number > transaction.start_time: potential conflict
ConcurrentWriter(info, tr) == info.version_number > tr.start_time

MutCheckHeadOnly(is, info, tr, ids, offset, node) ==
    LET u == is[info]
        mine == u.version_number = tr.transaction_id
    IN [threw |-> ~mine /\ ConcurrentWriter(u, tr)
                    /\ MergeFindsConflict(ids, offset, u.tuples, 1, 1),
        node |-> IF mine THEN info ELSE node]

\* CheckForConflicts: [threw, node] where node is the caller's own UpdateInfo
\* found so far (0: none)
RECURSIVE CheckForConflicts(_, _, _, _, _, _)
CheckForConflicts(is, info, tr, ids, offset, node) ==
    LET u == is[info]
        mine == u.version_number = tr.transaction_id
        node1 == IF mine THEN info ELSE node
        threw == /\ ~mine
                 /\ ConcurrentWriter(u, tr)
                 /\ MergeFindsConflict(ids, offset, u.tuples, 1, 1)
    IN IF threw THEN [threw |-> TRUE, node |-> node1]
       ELSE IF u.next # 0 THEN CheckForConflicts(is, u.next, tr, ids, offset, node1)
       ELSE [threw |-> FALSE, node |-> node1]

MutCreateWithoutBackLink(is, vs, tr, ids, vector_index, vector_offset) ==
    LET node == Len(is) + 1
        next == vs[vector_index + 1]
        new == [version_number |-> tr.transaction_id,
                vector_index |-> vector_index,
                tuples |-> [i \in 1..Len(ids) |-> ids[i] - vector_offset],
                preimage |-> <<>>,
                next |-> next,
                prev |-> 0]
    IN [infos |-> Append(is, new),
        versions |-> [vs EXCEPT ![vector_index + 1] = node]]

\* Segment::CreateUpdateInfo: the new node is the last of the arena and the head
\* of the vector's chain
CreateUpdateInfo(is, vs, tr, ids, vector_index, vector_offset) ==
    LET node == Len(is) + 1
        next == vs[vector_index + 1]
        is1 == IF next # 0 THEN [is EXCEPT ![next].prev = node] ELSE is
        new == [version_number |-> tr.transaction_id,
                vector_index |-> vector_index,
                tuples |-> [i \in 1..Len(ids) |-> ids[i] - vector_offset],
                preimage |-> <<>>,
                next |-> next,
                prev |-> 0]
    IN [infos |-> Append(is1, new),
        versions |-> [vs EXCEPT ![vector_index + 1] = node]]

\* the typed Update(..., node): a new UpdateInfo holding the previous values of
\* the rows, or the rows merged into the transaction's node; then the new values
\* are written in place
ApplyUpdate(is, vs, b, tr, ids, v, vector_index, vector_offset, node) ==
    LET rel == [i \in 1..Len(ids) |-> ids[i] - vector_offset]
        relset == {rel[i] : i \in 1..Len(rel)}
        b1 == [r \in Rows |-> IF r - vector_offset \in relset THEN v ELSE b[r]]
    IN IF node = 0
       THEN LET made == CreateUpdateInfo(is, vs, tr, ids, vector_index, vector_offset)
                n == Len(made.infos)
            IN [infos |-> [made.infos EXCEPT
                             ![n].preimage = [i \in 1..Len(ids) |-> b[ids[i]]]],
                versions |-> made.versions,
                base |-> b1,
                created |-> n]
       ELSE LET old == is[node]
                oldset == {old.tuples[i] : i \in 1..Len(old.tuples)}
                merged == SortedSeq(oldset \cup relset)
                saved(tu) == IF tu \in oldset
                             THEN old.preimage[CHOOSE i \in 1..Len(old.tuples) :
                                                 old.tuples[i] = tu]
                             ELSE b[vector_offset + tu]
            IN [infos |-> [is EXCEPT ![node].tuples = merged,
                                     ![node].preimage =
                                        [i \in 1..Len(merged) |-> saved(merged[i])]],
                versions |-> vs,
                base |-> b1,
                created |-> 0]

\* RollbackUpdate: write the pre-images back and unlink the node
RollbackUpdate(st, info) ==
    LET u == st.infos[info]
        vector_offset == SegmentStart + u.vector_index * STANDARD_VECTOR_SIZE
        b1 == [r \in Rows |->
                 IF \E i \in 1..Len(u.tuples) : vector_offset + u.tuples[i] = r
                 THEN u.preimage[CHOOSE i \in 1..Len(u.tuples) :
                                   vector_offset + u.tuples[i] = r]
                 ELSE st.base[r]]
        is1 == IF u.prev # 0 THEN [st.infos EXCEPT ![u.prev].next = u.next]
               ELSE st.infos
        is2 == IF u.next # 0 THEN [is1 EXCEPT ![u.next].prev = u.prev] ELSE is1
        vs1 == IF u.prev = 0 THEN [st.versions EXCEPT ![u.vector_index + 1] = u.next]
               ELSE st.versions
    IN [infos |-> is2, versions |-> vs1, base |-> b1]

RECURSIVE RollbackAll(_, _, _)
RollbackAll(st, updates, i) ==
    IF i = 0 THEN st
    ELSE RollbackAll(RollbackUpdate(st, updates[i]), updates, i - 1)

\* CommitUpdate: the node's version_number becomes the commit timestamp
RECURSIVE CommitUpdates(_, _, _, _)
CommitUpdates(is, updates, i, commit_ts) ==
    IF i > Len(updates) THEN is
    ELSE CommitUpdates([is EXCEPT ![updates[i]].version_number = commit_ts],
                       updates, i + 1, commit_ts)

\* ------------------------------------ transaction manager: commit, abort
\* abort: walk the undo buffer in reverse, Undo on each entry
RECURSIVE UndoAll(_, _, _, _)
UndoAll(st, undo, i, ub) ==
    IF i = 0 THEN st
    ELSE UndoAll(Undo(st, undo[i], ub), undo, i - 1, ub)

Abort(t) ==
    /\ CanRun(t)
    /\ catalog_lock = 0
    /\ txn[t].updates # <<>> => CanGetExclusiveLock(lock)
    /\ \E ub \in UbOutcomes :
         LET st == UndoAll([nodes |-> nodes, data |-> data, crashed |-> FALSE],
                           txn[t].undo, Len(txn[t].undo), ub)
         IN /\ nodes' = st.nodes
            /\ data' = st.data
            /\ crashed' = st.crashed
    /\ LET st == RollbackAll([infos |-> infos, versions |-> versions, base |-> base],
                             txn[t].updates, Len(txn[t].updates))
       IN /\ infos' = st.infos
          /\ versions' = st.versions
          /\ base' = st.base
    /\ txn' = [txn EXCEPT ![t].status = "aborted"]
    /\ ret' = [op |-> "Abort", txn |-> t, name |-> 0, res |-> 0, exc |-> FALSE]
    /\ seg_ret' = NoSegRet
    /\ UNCHANGED <<catalog_lock, last_commit, alters, build, block_id>>
    /\ UNCHANGED <<max_vector_count, lock, thread, conversions>>
    /\ UNCHANGED bndvars

\* commit: every node the transaction created (the parent of each undo entry)
\* gets the commit timestamp
RECURSIVE CommitAll(_, _, _, _)
CommitAll(ns, undo, i, commit_ts) ==
    IF i > Len(undo) THEN ns
    ELSE CommitAll([ns EXCEPT ![ns[undo[i]].parent].timestamp = commit_ts],
                   undo, i + 1, commit_ts)

Commit(t) ==
    /\ CanRun(t)
    /\ ~txn[t].conflicted
    /\ catalog_lock = 0
    /\ txn[t].updates # <<>> => CanGetExclusiveLock(lock)
    /\ LET commit_ts == last_commit + 1
       IN /\ nodes' = CommitAll(nodes, txn[t].undo, 1, commit_ts)
          /\ last_commit' = commit_ts
          /\ infos' = CommitUpdates(infos, txn[t].updates, 1, commit_ts)
    /\ txn' = [txn EXCEPT ![t].status = "committed"]
    /\ ret' = [op |-> "Commit", txn |-> t, name |-> 0, res |-> 0, exc |-> FALSE]
    /\ seg_ret' = NoSegRet
    /\ UNCHANGED <<data, catalog_lock, crashed, alters>>
    /\ UNCHANGED <<build, block_id, versions, base>>
    /\ UNCHANGED <<max_vector_count, lock, thread, conversions>>
    /\ UNCHANGED bndvars

\* ------------------------------------------------------------ AlterEntry
\* Lookup the visible version, then Prepend a version with the same name; the
\* head may be a committed version or the transaction's own uncommitted one.
AlterEntry(t, name) ==
    /\ CanRun(t)
    /\ catalog_lock = t
    /\ alters < MaxAlter
    /\ alters' = alters + 1
    /\ LET head == data[name]
           snap == Snapshot(name)
       IN IF GetEntryResult(nodes, data, txn[t], name) = 0
          THEN /\ ret' = [op |-> "AlterEntry", txn |-> t, name |-> name,
                          res |-> 0, exc |-> FALSE]
               /\ UNCHANGED <<nodes, data, txn>>
          ELSE IF nodes[head].timestamp >= TRANSACTION_ID_START
                  /\ nodes[head].timestamp # txn[t].transaction_id
          THEN /\ ret' = [op |-> "AlterEntry", txn |-> t, name |-> name,
                          res |-> 0, exc |-> TRUE]
               /\ txn' = [txn EXCEPT ![t].conflicted = TRUE]
               /\ UNCHANGED <<nodes, data>>
          ELSE /\ nodes' = Splice(nodes, head, name, txn[t])
               /\ data' = [data EXCEPT ![name] = Len(nodes) + 1]
               /\ txn' = [txn EXCEPT
                            ![t] = Remember(PushCatalogEntry(@, head), name, snap)]
               /\ ret' = [op |-> "AlterEntry", txn |-> t, name |-> name,
                          res |-> 1, exc |-> FALSE]
    /\ catalog_lock' = 0
    /\ UNCHANGED <<last_commit, crashed>>
    /\ UNCHANGED segvars
    /\ UNCHANGED bndvars

\* ------------------------------------------------------- Segment::Update
Update(t, S, v) ==
    /\ CanRun(t)
    /\ ~txn[t].conflicted
    /\ LET ids == SortedSeq(S)
           call == [op |-> "Update", txn |-> t, ids |-> ids, exc |-> "none",
                    res |-> <<>>]
       IN IF build = "debug" /\ ~(block_id >= MAXIMUM_BLOCK)
          THEN \* assert(block_id >= MAXIMUM_BLOCK) fails
               /\ crashed' = TRUE
               /\ seg_ret' = [call EXCEPT !.exc = "assert"]
               /\ UNCHANGED <<versions, infos, base, txn, lock>>
          ELSE \* auto write_lock = lock.GetExclusiveLock()
               /\ CanGetExclusiveLock(lock)
               /\ LET vs0 == IF versions = <<>> THEN [i \in 1..max_vector_count |-> 0]
                             ELSE versions
                      first_id == ids[1]
                      vector_index == (first_id - SegmentStart) \div STANDARD_VECTOR_SIZE
                      vector_offset == SegmentStart + vector_index * STANDARD_VECTOR_SIZE
                      chk == IF vs0[vector_index + 1] # 0
                             THEN CheckForConflicts(infos, vs0[vector_index + 1], txn[t],
                                                    ids, vector_offset, 0)
                             ELSE [threw |-> FALSE, node |-> 0]
                      done == ApplyUpdate(infos, vs0, base, txn[t], ids, v,
                                          vector_index, vector_offset, chk.node)
                  IN /\ lock' = WriteLockAfterCall(GetExclusiveLock(lock), chk.threw)
                     /\ IF chk.threw
                        THEN \* throw TransactionException("Conflict on update!")
                             /\ seg_ret' = [call EXCEPT !.exc = "conflict"]
                             /\ txn' = [txn EXCEPT ![t].conflicted = TRUE]
                             /\ versions' = vs0
                             /\ UNCHANGED <<infos, base, crashed>>
                        ELSE /\ seg_ret' = call
                             /\ infos' = done.infos
                             /\ versions' = done.versions
                             /\ base' = done.base
                             /\ txn' = [txn EXCEPT
                                          ![t].updates = IF done.created = 0 THEN @
                                                         ELSE Append(@, done.created),
                                          ![t].puts = [r \in Rows |->
                                                         IF r \in S THEN v ELSE @[r]]]
                             /\ UNCHANGED crashed
    /\ ret' = NoRet
    /\ UNCHANGED <<nodes, data, catalog_lock, last_commit, alters, build, block_id>>
    /\ UNCHANGED <<max_vector_count, thread, conversions>>
    /\ UNCHANGED bndvars

\* --------------------------------------------------------- Segment::Scan
\* a node whose version the reader may not see: committed after the reader's
\* start_time, or uncommitted by another transaction
MutInvisibleIfForeign(u, tr) == u.version_number # tr.transaction_id

Invisible(u, tr) ==
    /\ u.version_number > tr.start_time
    /\ u.version_number # tr.transaction_id

\* overlay the pre-images of the invisible nodes, newest node first
RECURSIVE Overlay(_, _, _, _, _)
Overlay(is, chain, k, tr, result) ==
    IF k > Len(chain) THEN result
    ELSE LET u == is[chain[k]]
             saved(i) == u.preimage[CHOOSE j \in 1..Len(u.tuples) : u.tuples[j] = i]
             covered(i) == \E j \in 1..Len(u.tuples) : u.tuples[j] = i
         IN Overlay(is, chain, k + 1, tr,
                    IF Invisible(u, tr)
                    THEN [i \in DOMAIN result |->
                            IF covered(i) THEN saved(i) ELSE result[i]]
                    ELSE result)

\* FetchBaseData: the vector as the block holds it
FetchBaseData(b, vector_index) ==
    [i \in 0..(STANDARD_VECTOR_SIZE - 1) |->
       b[SegmentStart + vector_index * STANDARD_VECTOR_SIZE + i]]

\* the vector as the snapshot of tr sees it
ScanVector(is, vs, b, tr, vector_index) ==
    LET chain == IF vs = <<>> THEN <<>> ELSE InfoChain(is, vs[vector_index + 1])
    IN Overlay(is, chain, 1, tr, FetchBaseData(b, vector_index))

\* Scan(transaction, state, vector_index, result), under the shared lock
Scan(t, vector_index) ==
    /\ CanRun(t)
    /\ ~txn[t].conflicted
    /\ CanGetSharedLock(lock)
    /\ seg_ret' = [op |-> "Scan", txn |-> t, ids |-> <<vector_index>>, exc |-> "none",
                   res |-> ScanVector(infos, versions, base, txn[t], vector_index)]
    /\ ret' = NoRet
    /\ UNCHANGED <<catvars_but_ret, bndvars, segfixed, block_id, lock, thread, conversions,
                   versions, infos, base>>

\* ------------------------------------------------------- Segment::Select
\* a TableFilter: a comparison and a constant
TableFilter(comparison_type, constant) ==
    [comparison_type |-> comparison_type, constant |-> constant]

\* the comparisons filterSelectionType has a case for
SupportedComparisons ==
    {"COMPARE_EQUAL", "COMPARE_LESSTHAN", "COMPARE_GREATERTHAN",
     "COMPARE_LESSTHANOREQUALTO", "COMPARE_GREATERTHANOREQUALTO"}

\* OP::Operation(left, right) of Equals, LessThan, GreaterThan, LessThanEquals,
\* GreaterThanEquals
Operation(comparison_type, left, right) ==
    CASE comparison_type = "COMPARE_EQUAL" -> left = right
      [] comparison_type = "COMPARE_LESSTHAN" -> left < right
      [] comparison_type = "COMPARE_GREATERTHAN" -> left > right
      [] comparison_type = "COMPARE_LESSTHANOREQUALTO" -> left <= right
      [] comparison_type = "COMPARE_GREATERTHANOREQUALTO" -> left >= right
      [] OTHER -> FALSE

MutNullmaskNever(nullmask) == FALSE

\* nullmask.any()
NullmaskAny(nullmask) == \E i \in DOMAIN nullmask : nullmask[i]

\* the for loop of filter_selection_loop from iteration i on (0-based);
\* result_sel holds the entries set so far, result_count is its length
RECURSIVE filter_selection_from(_, _, _, _, _, _, _, _, _)
filter_selection_from(vec, predicate, sel, approved_tuple_count, nullmask, OP, HAS_NULL, i, result_sel) ==
    IF ~(i < approved_tuple_count) THEN result_sel
    ELSE LET idx == sel[i + 1]
         IN filter_selection_from(
              vec, predicate, sel, approved_tuple_count, nullmask, OP, HAS_NULL, i + 1,
              IF (~HAS_NULL \/ ~nullmask[idx]) /\ Operation(OP, vec[idx], predicate)
              THEN Append(result_sel, idx)
              ELSE result_sel)

\* filter_selection_loop<T, OP, HAS_NULL>: the entries of result_sel that were
\* set; the return value result_count is their number
filter_selection_loop(vec, predicate, sel, approved_tuple_count, nullmask, OP, HAS_NULL) ==
    filter_selection_from(vec, predicate, sel, approved_tuple_count, nullmask, OP, HAS_NULL,
                          0, <<>>)

\* filterSelectionType<T>: [threw, sel, approved_tuple_count]
filterSelectionType(vec, predicate, sel, approved_tuple_count, comparison_type, nullmask) ==
    IF comparison_type \notin SupportedComparisons
    THEN \* throw NotImplementedException
         [threw |-> TRUE, sel |-> sel, approved_tuple_count |-> approved_tuple_count]
    ELSE LET new_sel == filter_selection_loop(vec, predicate, sel, approved_tuple_count,
                                              nullmask, comparison_type,
                                              NullmaskAny(nullmask))
         IN [threw |-> FALSE, sel |-> new_sel, approved_tuple_count |-> Len(new_sel)]

\* filterSelection: the data of `result` against the constant of the filter
filterSelection(sel, result, filter, approved_tuple_count, nullmask) ==
    filterSelectionType([i \in DOMAIN result |-> result[i].val], filter.constant, sel,
                        approved_tuple_count, filter.comparison_type, nullmask)

\* for (auto &table_filter : tableFilters) filterSelection(...)
RECURSIVE ApplyFilters(_, _, _, _, _)
ApplyFilters(tableFilters, k, st, result, nullmask) ==
    IF k > Len(tableFilters) \/ st.threw THEN st
    ELSE ApplyFilters(tableFilters, k + 1,
                      filterSelection(st.sel, result, tableFilters[k],
                                      st.approved_tuple_count, nullmask),
                      result, nullmask)

\* the nullmask of the vector in the pinned block: (nullmask_t *)(data + offset)
SourceNullmask(b, vector_index) ==
    [i \in 0..(STANDARD_VECTOR_SIZE - 1) |-> FetchBaseData(b, vector_index)[i].null]

\* the nullmask of the vector Scan materialized
ResultNullmask(b, result, vector_index) == [i \in DOMAIN result |-> result[i].null]

\* the nullmask Select hands to filterSelection on the versioned path
FilterNullmask(b, result, vector_index) == SourceNullmask(b, vector_index)

\* the selection every Select call starts from: all rows of the vector
AllRows == [i \in 1..STANDARD_VECTOR_SIZE |-> i - 1]

Select(t, vector_index, tableFilters) ==
    /\ CanRun(t)
    /\ ~txn[t].conflicted
    /\ CanGetSharedLock(lock)
    /\ LET start == [threw |-> FALSE, sel |-> AllRows,
                     approved_tuple_count |-> Len(AllRows)]
           done ==
             IF versions # <<>> /\ versions[vector_index + 1] # 0
             THEN LET result == ScanVector(infos, versions, base, txn[t], vector_index)
                  IN ApplyFilters(tableFilters, 1, start, result,
                                  FilterNullmask(base, result, vector_index))
             ELSE \* Select the data from the base table
                  LET result == FetchBaseData(base, vector_index)
                  IN ApplyFilters(tableFilters, 1, start, result,
                                  SourceNullmask(base, vector_index))
       IN seg_ret' = [op |-> "Select", txn |-> t, ids |-> <<vector_index>>,
                      exc |-> IF done.threw THEN "notimplemented" ELSE "none",
                      res |-> [sel |-> done.sel,
                               approved_tuple_count |-> done.approved_tuple_count,
                               tableFilters |-> tableFilters]]
    /\ ret' = NoRet
    /\ UNCHANGED <<catvars_but_ret, bndvars, segfixed, block_id, lock, thread, conversions,
                   versions, infos, base>>

\* ---------------------------------------------------- Segment::IndexScan
MutNeverTakesLock(vector_index) == FALSE

\* vector_index == 0: the call that obtains the shared lock of the scan
TakesSharedLock(vector_index) == vector_index = 0

MutNoOutstandingUpdates(vs, vector_index) == FALSE

\* versions && versions[vector_index]
OutstandingUpdates(vs, vector_index) == vs # <<>> /\ vs[vector_index + 1] # 0

\* the threads that build indexes
Scanners == 1..Min({MaxScan, MaxThread})

\* one IndexScan call of the scan of thread th: the scan asks for the vectors of
\* the segment in order, starting at vector 0; the scan state keeps the lock
IndexScan(th) ==
    /\ ~crashed
    /\ thread[th].pc \in {"idle", "IndexScan"}
    /\ thread[th].vector_index < max_vector_count
    /\ LET vector_index == thread[th].vector_index
           call == [op |-> "IndexScan", txn |-> th, ids |-> <<vector_index>>,
                    exc |-> "none", res |-> <<>>]
           locking == TakesSharedLock(vector_index)
       IN /\ locking => CanGetSharedLock(lock)
          /\ lock' = IF locking THEN GetSharedLock(lock) ELSE lock
          /\ IF OutstandingUpdates(versions, vector_index)
             THEN \* throw TransactionException("Cannot create index with
                  \* outstanding updates"): the scan is over, its state lives on
                  \* until the caller destroys it
                  /\ seg_ret' = [call EXCEPT !.exc = "outstanding"]
                  /\ thread' = [thread EXCEPT
                                  ![th] = [pc |-> "IndexScanFailed",
                                           vector_index |-> vector_index,
                                           locks |-> @.locks + IF locking THEN 1 ELSE 0]]
             ELSE /\ seg_ret' = [call EXCEPT !.res = FetchBaseData(base, vector_index)]
                  /\ thread' = [thread EXCEPT
                                  ![th] = [pc |-> "IndexScan",
                                           vector_index |-> vector_index + 1,
                                           locks |-> @.locks + IF locking THEN 1 ELSE 0]]
    /\ ret' = NoRet
    /\ UNCHANGED <<catvars_but_ret, bndvars, segfixed, block_id, conversions, versions, infos, base>>

\* ~ColumnScanState: state.locks is destroyed, the shared locks are released
ReleaseScan(th) ==
    /\ ~crashed
    /\ thread[th].pc \in {"IndexScan", "IndexScanFailed"}
    /\ lock' = [lock EXCEPT !.read_count = @ - thread[th].locks]
    /\ thread' = [thread EXCEPT ![th] = IdleThread]
    /\ seg_ret' = NoSegRet
    /\ ret' = NoRet
    /\ UNCHANGED <<catvars_but_ret, bndvars, segfixed, block_id, conversions, versions, infos, base>>

\* ------------------------------------------------- Segment::ToTemporary
\* auto write_lock = lock.GetExclusiveLock(): the thread waits for the lock
ToTemporaryLock(th) ==
    /\ ~crashed
    /\ thread[th].pc = "idle"
    /\ CanGetExclusiveLock(lock)
    /\ lock' = GetExclusiveLock(lock)
    /\ thread' = [thread EXCEPT ![th].pc = "ToTemporary"]
    /\ seg_ret' = NoSegRet
    /\ ret' = NoRet
    /\ UNCHANGED <<catvars_but_ret, bndvars, segfixed, block_id, conversions, versions, infos, base>>

MutNeverTemporary(id) == FALSE

\* block_id >= MAXIMUM_BLOCK: conversion has already been performed
AlreadyTemporary(id) == id >= MAXIMUM_BLOCK

\* manager.Allocate: an in-memory block nobody holds yet; ManagedBuffer asserts
\* that its id is >= MAXIMUM_BLOCK
Allocate(made) == MAXIMUM_BLOCK + 1 + Len(made)

\* memcpy(handle->node->buffer, current->node->buffer, Storage::BLOCK_SIZE)
Memcpy(buffer) == [r \in DOMAIN buffer |-> buffer[r]]

\* the body of ToTemporary, run with the exclusive lock held, and the release of
\* the lock on return
ToTemporary(th) ==
    /\ ~crashed
    /\ thread[th].pc = "ToTemporary"
    /\ IF AlreadyTemporary(block_id)
       THEN /\ seg_ret' = [op |-> "ToTemporary", txn |-> th, ids |-> <<>>,
                           exc |-> "none", res |-> <<FALSE>>]
            /\ UNCHANGED <<block_id, base, conversions>>
       ELSE LET handle == Allocate(conversions)
                copied == Memcpy(base)
            IN /\ block_id' = handle
               /\ base' = copied
               /\ conversions' = Append(conversions,
                                    [from |-> block_id, to |-> handle,
                                     old |-> base, new |-> copied])
               /\ seg_ret' = [op |-> "ToTemporary", txn |-> th, ids |-> <<>>,
                              exc |-> "none", res |-> <<TRUE>>]
    /\ lock' = WriteLockAfterCall(lock, FALSE)
    /\ thread' = [thread EXCEPT ![th].pc = "idle"]
    /\ ret' = NoRet
    /\ UNCHANGED <<catvars_but_ret, bndvars, segfixed, versions, infos>>

\* ========================================================== BindContext
\* the aliases of the query and the columns each brings: alias 1 is a(x, y),
\* alias 2 is b(y, z), ...: neighbours share a column name
Aliases == 1..MaxAlias

ColumnNames(alias) == <<alias, alias + 1>>

\* this context (1) and a sibling (2), the other side of a join
Contexts == {1, 2}

\* bindings: the aliases bound; bindings_list: the bindings in insertion order;
\* hidden_columns: the qualified columns kept out of `*`
EmptyContext == [bindings |-> {}, bindings_list |-> <<>>, hidden_columns |-> {}]

NoBindRet == [op |-> "none", ctx |-> 0, exc |-> FALSE, res |-> <<>>]

\* AddBinding, behind AddBaseTable / AddTableFunction / AddSubquery /
\* AddGenericBinding: a duplicate alias is a BinderError
AddBinding(c, alias) ==
    /\ IF alias \in context[c].bindings
       THEN /\ bind_ret' = [op |-> "AddBinding", ctx |-> c, exc |-> TRUE, res |-> <<>>]
            /\ UNCHANGED <<context, added>>
       ELSE /\ context' = [context EXCEPT
                             ![c].bindings = @ \cup {alias},
                             ![c].bindings_list = Append(@, alias)]
            /\ added' = [added EXCEPT ![c] = Append(@, alias)]
            /\ bind_ret' = [op |-> "AddBinding", ctx |-> c, exc |-> FALSE, res |-> <<>>]
    /\ UNCHANGED <<catvars, segvars>>

\* HideBinding(binding_name, column_name)
HideBinding(c, binding_name, column_name) ==
    /\ context' = [context EXCEPT
                     ![c].hidden_columns = @ \cup {<<binding_name, column_name>>}]
    /\ bind_ret' = [op |-> "HideBinding", ctx |-> c, exc |-> FALSE, res |-> <<>>]
    /\ UNCHANGED <<added, catvars, segvars>>

MutNothingHidden(cx, binding_name, column_name) == FALSE

\* BindingIsHidden(binding_name, column_name)
BindingIsHidden(cx, binding_name, column_name) ==
    <<binding_name, column_name>> \in cx.hidden_columns

\* AddContext(other): the bindings of the sibling move into this context, behind
\* its own; the sibling is left empty.  A duplicate alias is a BinderError.
AddContext(c, other) ==
    /\ c # other
    /\ IF context[c].bindings \cap context[other].bindings # {}
       THEN /\ bind_ret' = [op |-> "AddContext", ctx |-> c, exc |-> TRUE, res |-> <<>>]
            /\ UNCHANGED <<context, added>>
       ELSE /\ context' = [context EXCEPT
                  ![c] = [bindings |-> @.bindings \cup context[other].bindings,
                          bindings_list |-> @.bindings_list \o context[other].bindings_list,
                          hidden_columns |-> @.hidden_columns
                                             \cup context[other].hidden_columns],
                  ![other] = EmptyContext]
            /\ added' = [added EXCEPT ![c] = @ \o added[other], ![other] = <<>>]
            /\ bind_ret' = [op |-> "AddContext", ctx |-> c, exc |-> FALSE, res |-> <<>>]
    /\ UNCHANGED <<catvars, segvars>>

\* GenerateAllColumnExpressions(new_select_list, binding): the column refs of
\* the columns of one binding that are not hidden, in column order
RECURSIVE BindingColumnExpressions(_, _, _)
BindingColumnExpressions(cx, alias, k) ==
    IF k > Len(ColumnNames(alias)) THEN <<>>
    ELSE (IF BindingIsHidden(cx, alias, ColumnNames(alias)[k]) THEN <<>>
          ELSE <<<<alias, ColumnNames(alias)[k]>>>>)
         \o BindingColumnExpressions(cx, alias, k + 1)

\* the expansion of `*`: every binding of bindings_list in turn
RECURSIVE AllColumnExpressions(_, _)
AllColumnExpressions(cx, k) ==
    IF k > Len(cx.bindings_list) THEN <<>>
    ELSE BindingColumnExpressions(cx, cx.bindings_list[k], 1)
         \o AllColumnExpressions(cx, k + 1)

\* GenerateAllColumnExpressions(new_select_list, relation_name = "")
GenerateAllColumnExpressions(c) ==
    /\ bind_ret' = [op |-> "GenerateAllColumnExpressions", ctx |-> c, exc |-> FALSE,
                    res |-> AllColumnExpressions(context[c], 1)]
    /\ UNCHANGED <<context, added, catvars, segvars>>

InitBind ==
    /\ context = [c \in Contexts |-> EmptyContext]
    /\ added = [c \in Contexts |-> <<>>]
    /\ bind_ret = NoBindRet

\* ------------------------------------------------------- specifications
InitCatalog ==
    /\ nodes = <<>>
    /\ data = [n \in Names |-> 0]
    /\ catalog_lock = 0
    /\ txn = <<>>
    /\ last_commit = 0
    /\ crashed = FALSE
    /\ ret = NoRet
    /\ alters = 0

InitSegment ==
    /\ versions = <<>>
    /\ infos = <<>>
    /\ base = [r \in Rows |-> Cell(FALSE, 0)]
    /\ seg_ret = NoSegRet
    /\ lock = NoLock
    /\ thread = [th \in Threads |-> IdleThread]
    /\ conversions = <<>>

\* the catalog set, beside a transient segment nobody touches
Init ==
    /\ InitCatalog
    /\ InitBind
    /\ max_vector_count = 1
    /\ InitSegment
    /\ build = "debug"
    /\ block_id = MAXIMUM_BLOCK

Next ==
    \/ Begin
    \/ \E t \in 1..MaxTxn : Lock(t)
    \/ \E t \in 1..MaxTxn, name \in Names : CreateEntry(t, name)
    \/ \E t \in 1..MaxTxn, name \in Names : GetEntry(t, name)
    \/ \E t \in 1..MaxTxn, name \in Names : EntryExists(t, name)
    \/ \E t \in 1..MaxTxn, name \in Names : DropEntry(t, name)
    \/ \E t \in 1..MaxTxn : Commit(t)
    \/ \E t \in 1..MaxTxn : Abort(t)

\* the catalog set as shipped: CreateEntry, GetEntry, EntryExists, Undo
Spec == Init /\ [][Next]_vars

NextAlter ==
    \/ Next
    \/ \E t \in 1..MaxTxn, name \in Names : AlterEntry(t, name)

\* the catalog set with AlterEntry prepending further versions
SpecAlter == Init /\ [][NextAlter]_vars

\* a segment that starts on a disk block or on an in-memory block, in a debug or
\* a release build
InitSeg ==
    /\ InitCatalog
    /\ InitBind
    /\ max_vector_count = 1
    /\ InitSegment
    /\ build \in {"debug", "release"}
    /\ block_id \in {0, MAXIMUM_BLOCK}

NextSeg ==
    \/ Begin
    \/ \E t \in 1..MaxTxn, S \in IdSets : \E v \in UpdateValues(t) : Update(t, S, v)
    \/ \E t \in 1..MaxTxn : Commit(t)
    \/ \E t \in 1..MaxTxn : Abort(t)

\* the update chains of one segment
SpecSeg == InitSeg /\ [][NextSeg]_vars

\* threads promoting a segment while transactions update it
NextTemp ==
    \/ Begin
    \/ \E t \in 1..MaxTxn, S \in IdSets : \E v \in UpdateValues(t) : Update(t, S, v)
    \/ \E th \in Threads : ToTemporaryLock(th)
    \/ \E th \in Threads : ToTemporary(th)

SpecTemp == InitSeg /\ [][NextTemp]_vars

VectorIndexes == 0..(max_vector_count - 1)

\* readers of a segment whose rows are updated
NextScan ==
    \/ Begin
    \/ \E t \in 1..MaxTxn, S \in IdSets : \E v \in UpdateValues(t) : Update(t, S, v)
    \/ \E t \in 1..MaxTxn, vector_index \in VectorIndexes : Scan(t, vector_index)
    \/ \E t \in 1..MaxTxn : Commit(t)
    \/ \E t \in 1..MaxTxn : Abort(t)

SpecScan == Init /\ [][NextScan]_vars

\* the filter lists pushed down to the segment
FilterLists ==
    {<<TableFilter("COMPARE_GREATERTHANOREQUALTO", 0)>>,
     <<TableFilter("COMPARE_GREATERTHAN", 0), TableFilter("COMPARE_LESSTHANOREQUALTO", 1)>>}

\* filtered reads of a segment whose rows are updated, also to NULL
NextSelect ==
    \/ Begin
    \/ \E t \in 1..MaxTxn, S \in IdSets :
         \E v \in UpdateValues(t) \cup NullValues(t) : Update(t, S, v)
    \/ \E t \in 1..MaxTxn, vector_index \in VectorIndexes, tableFilters \in FilterLists :
         Select(t, vector_index, tableFilters)
    \/ \E t \in 1..MaxTxn : Commit(t)

SpecSelect == Init /\ [][NextSelect]_vars

\* a segment of two vectors, on a disk block or on an in-memory block
InitIdx ==
    /\ InitCatalog
    /\ InitBind
    /\ max_vector_count = 2
    /\ InitSegment
    /\ build = "debug"
    /\ block_id \in {0, MAXIMUM_BLOCK}

\* the first row of a vector
FirstRow(vector_index) == SegmentStart + vector_index * STANDARD_VECTOR_SIZE

\* index scans beside updates and promotions of the segment
NextIdx ==
    \/ Begin
    \/ \E t \in 1..MaxTxn, vector_index \in VectorIndexes :
         \E v \in UpdateValues(t) : Update(t, {FirstRow(vector_index)}, v)
    \/ \E th \in Scanners : IndexScan(th)
    \/ \E th \in Scanners : ReleaseScan(th)
    \/ \E th \in Threads : ToTemporaryLock(th)
    \/ \E th \in Threads : ToTemporary(th)
    \/ \E t \in 1..MaxTxn : Abort(t)

SpecIdx == InitIdx /\ [][NextIdx]_vars

ColumnSet(alias) == {ColumnNames(alias)[k] : k \in 1..Len(ColumnNames(alias))}

\* what USING / NATURAL JOIN hide: a column of a binding that a binding before
\* it in the context has too
JoinColumns(cx) ==
    {q \in Aliases \X UNION {ColumnSet(a) : a \in Aliases} :
       /\ q[2] \in ColumnSet(q[1])
       /\ \E k \in 1..Len(cx.bindings_list) :
            /\ cx.bindings_list[k] = q[1]
            /\ \E j \in 1..(k - 1) : q[2] \in ColumnSet(cx.bindings_list[j])}

\* the binder filling two contexts, hiding join columns, merging the sibling and
\* expanding `*`
NextBind ==
    \/ \E c \in Contexts, alias \in Aliases : AddBinding(c, alias)
    \/ \E c \in Contexts :
         \E q \in JoinColumns(context[c]) : HideBinding(c, q[1], q[2])
    \/ \E c \in Contexts, other \in Contexts : AddContext(c, other)
    \/ \E c \in Contexts : GenerateAllColumnExpressions(c)

SpecBind == Init /\ [][NextBind]_vars

\* =================================================================== claims
IsCall(op) == ret.op = op /\ ret.txn \in TxnIds /\ ret.name \in Names

\* the visibility rule of a snapshot, stated on its own
SnapshotSees(node, tr) ==
    \/ node.timestamp = tr.transaction_id
    \/ node.timestamp < tr.start_time /\ node.timestamp < TRANSACTION_ID_START

\* the newest version of `name` the snapshot of tr sees, 0 when there is none
NewestVisible(name, tr) ==
    LET c == Chain(nodes, data[name])
        vis == {i \in 1..Len(c) : SnapshotSees(nodes[c[i]], tr)}
    IN IF vis = {} THEN 0 ELSE c[Min(vis)]

SnapshotEntry(name, tr) ==
    LET v == NewestVisible(name, tr)
    IN IF v = 0 THEN 0 ELSE IF nodes[v].deleted THEN 0 ELSE v

C2_CommittedWriteVisibleAfterCommit ==
    IsCall("GetEntry") =>
      LET h == data[ret.name]
          tr == txn[ret.txn]
      IN (/\ h # 0
          /\ ~nodes[h].deleted
          /\ nodes[h].timestamp < TRANSACTION_ID_START) =>
           /\ tr.start_time >= nodes[h].timestamp => ret.res = h
           /\ tr.start_time < nodes[h].timestamp => ret.res # h

\* C3: CreateEntry on a name whose head is committed and not deleted returns
\* false without raising, and leaves the map, the chains and the caller's undo
\* buffer as they were.
C3_CreateOnLiveEntryReturnsFalse ==
    [][\A t \in TxnIds, name \in Names :
         (/\ catalog_lock = t
          /\ ret'.op = "CreateEntry" /\ ret'.txn = t /\ ret'.name = name
          /\ data[name] # 0
          /\ nodes[data[name]].timestamp < TRANSACTION_ID_START
          /\ ~nodes[data[name]].deleted)
         => /\ ret'.res = 0
            /\ ~ret'.exc
            /\ nodes' = nodes
            /\ data' = data
            /\ txn'[t].undo = txn[t].undo]_vars

C3_Witness ==
    /\ IsCall("CreateEntry")
    /\ ret.res = 0
    /\ ~ret.exc
    /\ nodes[data[ret.name]].timestamp < TRANSACTION_ID_START
    /\ ~nodes[data[ret.name]].deleted

\* C4: CreateEntry on a name whose head is another transaction's uncommitted
\* version raises the write-write conflict, changes neither the map, the chains
\* nor the caller's undo buffer, and leaves the mutex released.
C4_CreateOnForeignUncommittedThrows ==
    [][\A t \in TxnIds, name \in Names :
         (/\ catalog_lock = t
          /\ ret'.op = "CreateEntry" /\ ret'.txn = t /\ ret'.name = name
          /\ data[name] # 0
          /\ nodes[data[name]].timestamp >= TRANSACTION_ID_START
          /\ nodes[data[name]].timestamp # txn[t].transaction_id)
         => /\ ret'.exc
            /\ nodes' = nodes
            /\ data' = data
            /\ txn'[t].undo = txn[t].undo
            /\ catalog_lock' = 0]_vars

C4_Witness ==
    /\ IsCall("CreateEntry")
    /\ ret.exc
    /\ catalog_lock = 0
    /\ nodes[data[ret.name]].timestamp >= TRANSACTION_ID_START
    /\ nodes[data[ret.name]].timestamp # txn[ret.txn].transaction_id

\* C5: a transaction whose own uncommitted version is the head of a name can
\* prepend a further version of that name: CreateEntry does not raise a
\* write-write conflict and succeeds.
C5_PrependOnOwnHeadSucceeds ==
    (/\ IsCall("CreateEntry")
     /\ nodes[data[ret.name]].timestamp = txn[ret.txn].transaction_id)
    => (~ret.exc /\ ret.res = 1)

\* two transactions whose lifetimes overlap: the earlier one was still active
\* when the later one began
Overlap(t1, t2) == t1 \in txn[t2].concurrent \/ t2 \in txn[t1].concurrent

BothMutated(t1, t2) == txn[t1].wrote \cap txn[t2].wrote # {}

\* C7 (as stated): of two overlapping transactions that both mutate the same
\* name, at least one aborts with a write-write conflict.
C7_OverlappingWritersOneConflicts ==
    \A t1 \in TxnIds, t2 \in TxnIds :
      (t1 # t2 /\ Overlap(t1, t2) /\ BothMutated(t1, t2))
      => (txn[t1].conflicted \/ txn[t2].conflicted)

\* C7 (amended): of two overlapping transactions that both mutate the same
\* name, at least one aborts, with a write-write conflict or by rollback; the
\* two never both commit.
C7_OverlappingWritersOneAborts ==
    \A t1 \in TxnIds, t2 \in TxnIds :
      (t1 # t2 /\ Overlap(t1, t2) /\ BothMutated(t1, t2))
      => \E t \in {t1, t2} : txn[t].conflicted \/ txn[t].status = "aborted"

C7_Witness ==
    \E t1 \in TxnIds, t2 \in TxnIds :
      /\ t1 # t2 /\ Overlap(t1, t2) /\ BothMutated(t1, t2)
      /\ txn[t1].status = "aborted"
      /\ txn[t2].status = "committed"

\* C8: once abort(T) has undone T's undo buffer in reverse, every name T wrote
\* holds the versions it held before T's first write to it (the same nodes with
\* the same timestamps, also when T prepended several versions), every lookup
\* returns what it returned then, and the process is still running.
C8_AbortRestoresCatalog ==
    (ret.op = "Abort" /\ ret.txn \in TxnIds) =>
      /\ ~crashed
      /\ \A name \in txn[ret.txn].wrote :
           /\ Snapshot(name).versions = txn[ret.txn].pre[name].versions
           /\ Snapshot(name).sees = txn[ret.txn].pre[name].sees

\* C8, to the letter: the map holds the same keys and each chain the same nodes
\* with the same fields and links as before T's first write.
C8_AbortRestoresIdenticalState ==
    (ret.op = "Abort" /\ ret.txn \in TxnIds) =>
      /\ ~crashed
      /\ \A name \in txn[ret.txn].wrote :
           /\ Snapshot(name).inmap = txn[ret.txn].pre[name].inmap
           /\ Snapshot(name).chain = txn[ret.txn].pre[name].chain

\* C9: every chain holds at most one node with timestamp >= TRANSACTION_ID_START
\* and that node is the head.
C9_OneInFlightWriterAtHead ==
    \A name \in Names :
      LET c == Chain(nodes, data[name])
      IN \A i \in 1..Len(c) :
           nodes[c[i]].timestamp >= TRANSACTION_ID_START => i = 1

C9_Witness ==
    \E name \in Names :
      /\ data[name] # 0
      /\ nodes[data[name]].timestamp >= TRANSACTION_ID_START
      /\ Len(Chain(nodes, data[name])) = 2
      /\ \E t \in TxnIds : txn[t].conflicted

\* C10: the node in the map is the only node of its chain without a parent, each
\* child's parent is the node above it, and the chain ends at the dummy deleted
\* node with timestamp 0.
C10_ChainWellLinked ==
    \A name \in Names :
      data[name] # 0 =>
        LET c == Chain(nodes, data[name])
            last == nodes[c[Len(c)]]
        IN /\ nodes[c[1]].parent = 0
           /\ \A i \in 2..Len(c) : nodes[c[i]].parent = c[i - 1]
           /\ last.child = 0 /\ last.deleted /\ last.timestamp = 0

\* C11: DropEntry on a name whose entry is visible to the caller returns true
\* and prepends the caller's version with deleted = true, so that the caller's
\* EntryExists becomes false; it returns false only when no entry is visible.
C11_DropPrependsDeletedVersion ==
    IsCall("DropEntry") =>
      LET tr == txn[ret.txn]
          h == data[ret.name]
      IN IF ret.res = 1
         THEN /\ h # 0
              /\ nodes[h].deleted
              /\ nodes[h].timestamp = tr.transaction_id
              /\ ~EntryExistsResult(nodes, data, tr, ret.name)
         ELSE SnapshotEntry(ret.name, tr) = 0

\* an UpdateInfo of another transaction, invisible to tr (uncommitted, or
\* committed after tr began), that covers one of the rows `ids`
ConflictsWith(u, tr, ids) ==
    /\ u.version_number # tr.transaction_id
    /\ u.version_number > tr.start_time
    /\ \E i \in 1..Len(ids), j \in 1..Len(u.tuples) :
         ids[i] = SegmentStart + u.vector_index * STANDARD_VECTOR_SIZE + u.tuples[j]

UpdatedChain == InfoChain(infos, versions[VectorOf(seg_ret.ids[1]) + 1])

\* C6: Update raises the conflict whenever the vector's chain holds, at any
\* position, a node of another transaction with version_number > start_time
\* that shares a row with the ids.
C6_UpdateConflictAnywhereInChain ==
    (seg_ret.op = "Update" /\ seg_ret.exc # "assert") =>
      ((\E k \in 1..Len(UpdatedChain) :
          ConflictsWith(infos[UpdatedChain[k]], txn[seg_ret.txn], seg_ret.ids))
       => seg_ret.exc = "conflict")

\* a conflict with a committed node that sits below a head that does not conflict
C6_Witness ==
    /\ seg_ret.op = "Update"
    /\ seg_ret.exc = "conflict"
    /\ Len(UpdatedChain) >= 2
    /\ ~ConflictsWith(infos[UpdatedChain[1]], txn[seg_ret.txn], seg_ret.ids)
    /\ \E k \in 2..Len(UpdatedChain) :
         /\ ConflictsWith(infos[UpdatedChain[k]], txn[seg_ret.txn], seg_ret.ids)
         /\ infos[UpdatedChain[k]].version_number < TRANSACTION_ID_START

\* the rows of the last Update call hold the value the caller wrote
UpdateApplied ==
    \A i \in 1..Len(seg_ret.ids) : base[seg_ret.ids[i]] \in UpdateValues(seg_ret.txn)

\* C12: an Update never trips an assertion on an immutable segment; after the
\* call the segment is on an in-memory block (block_id >= MAXIMUM_BLOCK) and,
\* when no conflict was raised, the base data holds the updated value.
C12_UpdatePromotesImmutableSegment ==
    seg_ret.op = "Update" =>
      /\ seg_ret.exc # "assert"
      /\ block_id >= MAXIMUM_BLOCK
      /\ seg_ret.exc = "none" => UpdateApplied

\* C13: over all interleavings of the threads calling ToTemporary, at most one
\* call copies the block, and exactly one when the segment started on a disk
\* block; once a call has returned block_id >= MAXIMUM_BLOCK; the new block
\* holds what the old block held; and block_id, once >= MAXIMUM_BLOCK, never
\* changes again.
C13_ToTemporaryConvertsOnce ==
    /\ [](/\ Len(conversions) <= 1
          /\ seg_ret.op = "ToTemporary" =>
               /\ block_id >= MAXIMUM_BLOCK
               /\ seg_ret.res[1] => Len(conversions) = 1
               \* no copy was made only when the segment started in memory
               /\ Len(conversions) = 0 => block_id = MAXIMUM_BLOCK
          /\ \A i \in 1..Len(conversions) :
               /\ conversions[i].from < MAXIMUM_BLOCK
               /\ conversions[i].to >= MAXIMUM_BLOCK
               /\ conversions[i].new = conversions[i].old)
    /\ [][block_id >= MAXIMUM_BLOCK => block_id' = block_id]_vars

\* a second thread's call found the segment already promoted by the first, after
\* an update had changed the block on disk
C13_Witness ==
    /\ seg_ret.op = "ToTemporary"
    /\ seg_ret.res = <<FALSE>>
    /\ Len(conversions) = 1
    /\ conversions[1].to = block_id
    /\ \E r \in Rows : conversions[1].old[r].val # 0
    /\ \E th \in Threads : th # seg_ret.txn /\ thread[th].pc = "idle"

\* the commit timestamp of a committed transaction that updated the segment
CommitTs(u) == infos[txn[u].updates[1]].version_number

\* the transactions whose write of row r the snapshot of t contains: committed
\* at or before t began
CommittedWriters(t, r) ==
    {u \in TxnIds : /\ txn[u].status = "committed"
                    /\ txn[u].puts[r] # NoCell
                    /\ CommitTs(u) <= txn[t].start_time}

\* the value of row r in the snapshot of t: t's own last write, else the write
\* of the last transaction committed before t began, else the initial value
SnapshotValue(t, r) ==
    IF txn[t].puts[r] # NoCell THEN txn[t].puts[r]
    ELSE IF CommittedWriters(t, r) = {} THEN Cell(FALSE, 0)
    ELSE LET last == CHOOSE u \in CommittedWriters(t, r) :
                       \A w \in CommittedWriters(t, r) : CommitTs(w) <= CommitTs(u)
         IN txn[last].puts[r]

\* C14: Scan returns, for every row of the vector, the value of the reader's
\* snapshot: its own uncommitted update, else the last update committed before
\* it began (the pre-image kept in a later writer's UpdateInfo), and never an
\* update committed after it began or not committed at all.
C14_ScanReturnsSnapshot ==
    seg_ret.op = "Scan" =>
      \A i \in DOMAIN seg_ret.res :
        seg_ret.res[i] =
          SnapshotValue(seg_ret.txn,
                        SegmentStart + seg_ret.ids[1] * STANDARD_VECTOR_SIZE + i)

\* T1 scans a row that T2 updated and committed after T1 began: the block holds
\* T2's value, the scan returns the value from before
C14_Witness ==
    /\ seg_ret.op = "Scan"
    /\ \E i \in DOMAIN seg_ret.res, u \in TxnIds :
         LET r == SegmentStart + seg_ret.ids[1] * STANDARD_VECTOR_SIZE + i
         IN /\ u # seg_ret.txn
            /\ txn[u].status = "committed"
            /\ txn[u].puts[r] = base[r]
            /\ CommitTs(u) > txn[seg_ret.txn].start_time
            /\ seg_ret.res[i] # base[r]
            /\ seg_ret.res[i] = Cell(FALSE, 0)

\* the row satisfies every filter of the list
SatisfiesAll(cell, tableFilters) ==
    \A k \in 1..Len(tableFilters) :
      Operation(tableFilters[k].comparison_type, cell.val, tableFilters[k].constant)

\* C15: on a vector with a version chain, Select selects exactly the rows whose
\* value in the reader's snapshot is not NULL and satisfies every filter: the
\* values and the NULL-ness are those of the snapshot, not of the raw block.
C15_SelectFiltersSnapshot ==
    (/\ seg_ret.op = "Select"
     /\ versions # <<>>
     /\ versions[seg_ret.ids[1] + 1] # 0)
    => LET snap(i) == SnapshotValue(seg_ret.txn,
                        SegmentStart + seg_ret.ids[1] * STANDARD_VECTOR_SIZE + i)
           wanted(i) == ~snap(i).null /\ SatisfiesAll(snap(i), seg_ret.res.tableFilters)
       IN /\ seg_ret.res.sel = SelectSeq(AllRows, wanted)
          /\ seg_ret.res.approved_tuple_count = Len(seg_ret.res.sel)

\* the vector has a version chain: at least one UpdateInfo is linked to it
VectorHasChain(vi) ==
    /\ versions # <<>>
    /\ Len(InfoChain(infos, versions[vi + 1])) > 0

\* some vector of the segment has a version chain
AnyOutstandingUpdates == \E vi \in VectorIndexes : VectorHasChain(vi)

\* C16 (as stated): IndexScan rejects the call whenever any vector of the
\* segment has a version chain, so no vector of a segment with outstanding
\* updates is handed to the index builder.
C16_IndexScanRejectsAnyChain ==
    (seg_ret.op = "IndexScan" /\ AnyOutstandingUpdates) => seg_ret.exc = "outstanding"

\* C16 (amended): IndexScan rejects a call exactly when the vector it is asked
\* for has a version chain; a scan that has gone through every vector of the
\* segment found no chain on any of them, and a scan of a segment with a chain
\* is rejected at the first vector that has one.
C16_IndexScanRejectsChainOfVector ==
    /\ seg_ret.op = "IndexScan" =>
         (seg_ret.exc = "outstanding") = VectorHasChain(seg_ret.ids[1])
    /\ \A th \in Scanners :
         /\ thread[th].pc = "IndexScan" =>
              \A vi \in 0..(thread[th].vector_index - 1) : ~VectorHasChain(vi)
         /\ thread[th].pc = "IndexScanFailed" =>
              /\ VectorHasChain(thread[th].vector_index)
              /\ \A vi \in 0..(thread[th].vector_index - 1) : ~VectorHasChain(vi)

\* vector 0 was handed out although vector 1 has a chain; the scan is rejected
\* when it reaches vector 1
C16_Witness ==
    /\ seg_ret.op = "IndexScan"
    /\ seg_ret.exc = "outstanding"
    /\ seg_ret.ids = <<1>>
    /\ ~VectorHasChain(0)
    /\ VectorHasChain(1)
    /\ thread[seg_ret.txn].pc = "IndexScanFailed"

\* the threads in the middle of an index scan
Scanning == {th \in Scanners : thread[th].pc \in {"IndexScan", "IndexScanFailed"}}

\* C17: from its first IndexScan call until its state is released, a scan holds
\* one shared lock of the segment; while any scan is in that span nobody holds
\* the exclusive lock, no step of Update or ToTemporary takes it, no UpdateInfo
\* is created, no vector gains a version chain and block_id stays as it is.
C17_IndexScanHoldsSharedLock ==
    /\ [](/\ \A th \in Scanning : thread[th].locks = 1
          /\ lock.read_count = Cardinality(Scanning)
          /\ Scanning # {} => ~lock.exclusive)
    /\ [][Scanning # {} =>
            /\ ~lock'.exclusive
            /\ Len(infos') = Len(infos)
            /\ \A vi \in VectorIndexes :
                 (versions' # <<>> /\ versions'[vi + 1] # 0)
                 => (versions # <<>> /\ versions[vi + 1] # 0)
            /\ block_id' = block_id]_vars

\* a scan is past vector 0 while a transaction is ready to update the segment
\* and a thread is ready to promote it: both wait for the lock
C17_Witness ==
    /\ \E th \in Scanning : thread[th].pc = "IndexScan" /\ thread[th].vector_index = 1
    /\ lock.read_count = 1
    /\ block_id >= MAXIMUM_BLOCK
    /\ \E t \in TxnIds : txn[t].status = "active" /\ ~txn[t].conflicted
    /\ \E th \in Threads : thread[th].pc = "idle"

\* the qualified columns of the aliases of a context, in the order the aliases
\* came into it and in column order within each
RECURSIVE ColumnsInOrder(_, _)
ColumnsInOrder(aliases, k) ==
    IF k > Len(aliases) THEN <<>>
    ELSE [i \in 1..Len(ColumnNames(aliases[k])) |->
            <<aliases[k], ColumnNames(aliases[k])[i]>>]
         \o ColumnsInOrder(aliases, k + 1)

\* C18: the expansion of `*` lists the columns of all bindings in the order the
\* bindings were added (those merged by AddContext behind the context's own)
\* and in column order within each binding, leaving out exactly the hidden
\* columns.
C18_StarExpansionInInsertionOrder ==
    bind_ret.op = "GenerateAllColumnExpressions" =>
      LET c == bind_ret.ctx
          visible(col) == col \notin context[c].hidden_columns
      IN bind_ret.res = SelectSeq(ColumnsInOrder(added[c], 1), visible)

\* a(x, y) and b(y, z), b merged in from the sibling, b.y hidden: a.x, a.y, b.z
C18_Witness ==
    /\ bind_ret.op = "GenerateAllColumnExpressions"
    /\ bind_ret.ctx = 1
    /\ added[1] = <<1, 2>>
    /\ context[1].hidden_columns = {<<2, 2>>}
    /\ bind_ret.res = << <<1, 1>>, <<1, 2>>, <<2, 3>> >>
    /\ context[2] = EmptyContext

\* C19: a successful CreateEntry makes the new entry the head of the name's
\* chain with the caller's transaction id as timestamp, the previous head as its
\* child and itself as that child's parent, and appends exactly the previous
\* head to the caller's undo buffer; for a name never seen before the previous
\* head is a new dummy node with timestamp 0 and deleted = true.
C19_CreateSplicesNewHead ==
    [][\A t \in TxnIds, name \in Names :
         (/\ catalog_lock = t
          /\ ret'.op = "CreateEntry" /\ ret'.txn = t /\ ret'.name = name
          /\ ret'.res = 1)
         => LET h == data'[name]
                prev == nodes'[h].child
            IN /\ h # 0 /\ h # data[name]
               /\ nodes'[h].timestamp = txn[t].transaction_id
               /\ ~nodes'[h].deleted
               /\ nodes'[h].parent = 0
               /\ prev # 0
               /\ nodes'[prev].parent = h
               /\ txn'[t].undo = Append(txn[t].undo, prev)
               /\ IF data[name] = 0
                  THEN /\ prev > Len(nodes)
                       /\ nodes'[prev].timestamp = 0
                       /\ nodes'[prev].deleted
                       /\ nodes'[prev].child = 0
                  ELSE /\ prev = data[name]
                       /\ nodes'[prev] = [nodes[prev] EXCEPT !.parent = h]]_vars

\* a create on a name whose map entry was left by an aborted creator: the
\* previous head is the old dummy node, not a new one
C19_Witness ==
    /\ IsCall("CreateEntry")
    /\ ret.res = 1
    /\ \E t \in TxnIds : txn[t].status = "aborted" /\ ret.name \in txn[t].wrote
    /\ LET h == data[ret.name]
       IN /\ nodes[h].timestamp = txn[ret.txn].transaction_id
          /\ nodes[h].child < h - 1
          /\ IsSentinel([nodes[nodes[h].child] EXCEPT !.parent = 0])

\* C20: an Update that raises the conflict has changed nothing: the version
\* array and every UpdateInfo, the base data and the caller's undo buffer are as
\* before the call, and the exclusive lock of the segment is free again.
C20_ConflictingUpdateChangesNothing ==
    [][\A t \in TxnIds :
         (/\ seg_ret'.op = "Update" /\ seg_ret'.txn = t
          /\ seg_ret'.exc = "conflict"
          /\ txn[t].status = "active" /\ ~txn[t].conflicted)
         => /\ versions' = versions
            /\ infos' = infos
            /\ base' = base
            /\ txn'[t].updates = txn[t].updates
            /\ txn'[t].undo = txn[t].undo
            /\ ~lock'.exclusive
            /\ CanGetExclusiveLock(lock')]_vars

\* a transaction that had updated one row ran into a conflict on another: its
\* own UpdateInfo is still in place and the lock is free
C20_Witness ==
    /\ seg_ret.op = "Update"
    /\ seg_ret.exc = "conflict"
    /\ CanGetExclusiveLock(lock)
    /\ Len(txn[seg_ret.txn].updates) = 1
    /\ \A i \in 1..Len(seg_ret.ids) :
         base[seg_ret.ids[i]] \notin UpdateValues(seg_ret.txn)

\* the rows an UpdateInfo covers
RowsOf(u) ==
    {SegmentStart + u.vector_index * STANDARD_VECTOR_SIZE + u.tuples[j] :
       j \in 1..Len(u.tuples)}

\* C21: Update raises the conflict only when the vector's chain holds a node of
\* another transaction with version_number > start_time that shares a row with
\* the ids: the caller's own node, nodes committed at or before its start_time
\* and nodes of overlapping transactions on other rows never raise it.
C21_ConflictOnlyWithConcurrentWriterOfRow ==
    (seg_ret.op = "Update" /\ seg_ret.exc = "conflict") =>
      \E k \in 1..Len(UpdatedChain) :
         LET u == infos[UpdatedChain[k]]
             tr == txn[seg_ret.txn]
         IN /\ u.version_number # tr.transaction_id
            /\ u.version_number > tr.start_time
            /\ RowsOf(u) \cap {seg_ret.ids[i] : i \in 1..Len(seg_ret.ids)} # {}

\* an Update went through on a vector whose chain holds the in-flight node of an
\* overlapping transaction, on another row of the vector
C21_Witness ==
    /\ seg_ret.op = "Update"
    /\ seg_ret.exc = "none"
    /\ \E k \in 1..Len(UpdatedChain) :
         LET u == infos[UpdatedChain[k]]
         IN /\ u.version_number >= TRANSACTION_ID_START
            /\ u.version_number # txn[seg_ret.txn].transaction_id
            /\ RowsOf(u) # {}
            /\ RowsOf(u) \cap {seg_ret.ids[i] : i \in 1..Len(seg_ret.ids)} = {}

\* an Update went through on rows that a node committed before the caller began
\* covers
C21_CommittedBeforeStart ==
    /\ seg_ret.op = "Update"
    /\ seg_ret.exc = "none"
    /\ \E k \in 1..Len(UpdatedChain) :
         LET u == infos[UpdatedChain[k]]
         IN /\ u.version_number <= txn[seg_ret.txn].start_time
            /\ RowsOf(u) \cap {seg_ret.ids[i] : i \in 1..Len(seg_ret.ids)} # {}

\* both overlapping writers of disjoint rows have committed
C21_BothCommitted ==
    \E t1, t2 \in TxnIds :
       /\ t1 \in txn[t2].concurrent
       /\ txn[t1].status = "committed" /\ txn[t2].status = "committed"
       /\ \E r1, r2 \in Rows :
            /\ r1 # r2 /\ VectorOf(r1) = VectorOf(r2)
            /\ txn[t1].puts[r1] # NoCell /\ txn[t1].puts[r2] = NoCell
            /\ txn[t2].puts[r2] # NoCell /\ txn[t2].puts[r1] = NoCell
            /\ base[r1] = txn[t1].puts[r1] /\ base[r2] = txn[t2].puts[r2]

\* the chain of vector vi (0-based), newest first
VectorChain(vi) == InfoChain(infos, versions[vi + 1])

\* the transactions that are in flight
InFlight == {t \in TxnIds : txn[t].status = "active"}

\* at most one UpdateInfo of each in-flight transaction in every chain
OneNodePerTransaction ==
    \A vi \in 0..(Len(versions) - 1) : \A t \in InFlight :
       Cardinality({k \in 1..Len(VectorChain(vi)) :
                      infos[VectorChain(vi)[k]].version_number
                        = txn[t].transaction_id}) <= 1

\* the head has no prev, and n.next.prev = n
DoublyLinked ==
    \A vi \in 0..(Len(versions) - 1) :
       /\ versions[vi + 1] # 0 => infos[versions[vi + 1]].prev = 0
       /\ \A k \in 1..Len(VectorChain(vi)) :
            LET n == VectorChain(vi)[k]
            IN infos[n].next # 0 => infos[infos[n].next].prev = n

\* a step that creates an UpdateInfo makes it the head of its vector's chain, in
\* front of the former head
InsertedAtHead ==
    Len(infos') = Len(infos) + 1 =>
      LET n == Len(infos')
          vi == infos'[n].vector_index
      IN /\ versions'[vi + 1] = n
         /\ infos'[n].next = (IF versions = <<>> THEN 0 ELSE versions[vi + 1])
         /\ infos'[n].prev = 0

\* C22: every per-vector update chain holds at most one UpdateInfo per
\* in-flight transaction and is consistently doubly linked (the head's prev is
\* none, n.next.prev = n), and a new node is always inserted at the head.
C22_ChainOneNodePerTransactionDoublyLinked ==
    /\ [](OneNodePerTransaction /\ DoublyLinked)
    /\ [][InsertedAtHead]_vars

\* a transaction whose node lies below the head of another transaction updated
\* the vector again: its node was extended, no node was created
C22_Witness ==
    /\ seg_ret.op = "Update"
    /\ seg_ret.exc = "none"
    /\ Len(UpdatedChain) >= 2
    /\ infos[UpdatedChain[1]].version_number # txn[seg_ret.txn].transaction_id
    /\ \E k \in 2..Len(UpdatedChain) :
         infos[UpdatedChain[k]].version_number = txn[seg_ret.txn].transaction_id
    /\ Len(txn[seg_ret.txn].updates) = 1

\* ------------------------------------------- filterSelection on its own
\* the data and the constants compared: below, equal and above all occur
FilterData == 0..MaxConstant

\* the vectors handed to filterSelection: MaxSel entries, NULL or not (the data
\* of a NULL entry is whatever the block holds)
FilterIndexes == 0..(MaxSel - 1)

FilterVectors == [FilterIndexes -> {Cell(n, v) : n \in BOOLEAN, v \in FilterData}]

Reverse(s) == [i \in 1..Len(s) |-> s[Len(s) + 1 - i]]

\* the selection vectors: indices without repetition, ascending or descending
FilterSelections ==
    {SortedSeq(S) : S \in SUBSET FilterIndexes}
      \cup {Reverse(SortedSeq(S)) : S \in SUBSET FilterIndexes}

\* the pushed-down filters: every comparison of the switch, and one it has no
\* case for
TableFilters ==
    {TableFilter(c, k) : c \in SupportedComparisons \cup {"COMPARE_NOTEQUAL"},
                         k \in FilterData}

\* the selection with all entries of the vector, as a scan starts with
AllSelected == [i \in 1..MaxSel |-> i - 1]

FilterCalled(sel, result, tableFilters, done) ==
    [op |-> "filterSelection", txn |-> 0, ids |-> sel,
     exc |-> IF done.threw THEN "notimplemented" ELSE "none",
     res |-> [sel |-> done.sel, approved_tuple_count |-> done.approved_tuple_count,
              tableFilters |-> tableFilters, result |-> result]]

\* filterSelection(sel, result, filter, approved_tuple_count, nullmask) with the
\* nullmask of the vector
FirstFilter(sel, result, filter) ==
    /\ seg_ret.op = "none"
    /\ seg_ret' = FilterCalled(sel, result, <<filter>>,
                               filterSelection(sel, result, filter, Len(sel),
                                               ResultNullmask(base, result, 0)))
    /\ UNCHANGED <<catvars, bndvars, segfixed, block_id, lock, thread, conversions,
                   versions, infos, base>>

\* the next iteration of `for (auto &table_filter : tableFilters)`: the filter
\* runs on the selection and the count the one before left
NextFilter(filter) ==
    /\ seg_ret.op = "filterSelection"
    /\ seg_ret.exc = "none"
    /\ seg_ret.ids = AllSelected
    /\ Len(seg_ret.res.tableFilters) = 1
    /\ seg_ret' = FilterCalled(seg_ret.ids, seg_ret.res.result,
                               Append(seg_ret.res.tableFilters, filter),
                               filterSelection(seg_ret.res.sel, seg_ret.res.result, filter,
                                               seg_ret.res.approved_tuple_count,
                                               ResultNullmask(base, seg_ret.res.result, 0)))
    /\ UNCHANGED <<catvars, bndvars, segfixed, block_id, lock, thread, conversions,
                   versions, infos, base>>

\* one vector and one selection are drawn per behaviour
NextFilterSelection ==
    \/ /\ seg_ret.op = "none"
       /\ \E sel \in FilterSelections, result \in FilterVectors, filter \in TableFilters :
            FirstFilter(sel, result, filter)
    \/ \E filter \in TableFilters : NextFilter(filter)

SpecFilter == Init /\ [][NextFilterSelection]_vars

\* entry idx of the vector is not NULL and satisfies every filter of the list
Passes(result, idx, tableFilters) ==
    /\ ~result[idx].null
    /\ \A k \in 1..Len(tableFilters) :
         CASE tableFilters[k].comparison_type = "COMPARE_EQUAL" ->
                result[idx].val = tableFilters[k].constant
           [] tableFilters[k].comparison_type = "COMPARE_LESSTHAN" ->
                result[idx].val < tableFilters[k].constant
           [] tableFilters[k].comparison_type = "COMPARE_LESSTHANOREQUALTO" ->
                result[idx].val <= tableFilters[k].constant
           [] tableFilters[k].comparison_type = "COMPARE_GREATERTHAN" ->
                result[idx].val > tableFilters[k].constant
           [] tableFilters[k].comparison_type = "COMPARE_GREATERTHANOREQUALTO" ->
                result[idx].val >= tableFilters[k].constant

\* s is the subsequence of the entries of sel that pass, in the order of sel
IsPassingSubsequence(s, sel, result, tableFilters) ==
    LET kept == {i \in 1..Len(sel) : Passes(result, sel[i], tableFilters)}
    IN /\ Len(s) = Cardinality(kept)
       /\ \A k \in 1..Len(s) :
            \E i \in kept :
               /\ s[k] = sel[i]
               /\ Cardinality({j \in kept : j < i}) = k - 1

\* C23: filterSelection with a supported comparison leaves as selection exactly
\* the entries of the input selection that are non-NULL and satisfy the
\* comparison, in their order, and their number as count; the loop with and the
\* loop without the NULL test agree when the nullmask has no bit set; filters
\* applied in turn select the conjunction.
C23_FilterSelectionIsPassingSubsequence ==
    (seg_ret.op = "filterSelection" /\ seg_ret.exc = "none") =>
      LET result == seg_ret.res.result
          nullmask == [i \in FilterIndexes |-> result[i].null]
          vec == [i \in FilterIndexes |-> result[i].val]
          last == seg_ret.res.tableFilters[Len(seg_ret.res.tableFilters)]
      IN /\ IsPassingSubsequence(seg_ret.res.sel, seg_ret.ids, result,
                                 seg_ret.res.tableFilters)
         /\ seg_ret.res.approved_tuple_count = Len(seg_ret.res.sel)
         /\ (\A i \in FilterIndexes : ~nullmask[i]) =>
              filter_selection_loop(vec, last.constant, seg_ret.ids, Len(seg_ret.ids),
                                    nullmask, last.comparison_type, TRUE)
              = filter_selection_loop(vec, last.constant, seg_ret.ids, Len(seg_ret.ids),
                                      nullmask, last.comparison_type, FALSE)

\* two filters ran in turn on a vector with a NULL entry whose data satisfies
\* both: the NULL entry was dropped, the two other entries were kept
C23_Witness ==
    /\ seg_ret.op = "filterSelection"
    /\ seg_ret.exc = "none"
    /\ Len(seg_ret.res.tableFilters) = 2
    /\ Len(seg_ret.res.sel) >= 2
    /\ Len(seg_ret.res.sel) < Len(seg_ret.ids)
    /\ \E i \in FilterIndexes :
         /\ seg_ret.res.result[i].null
         /\ Passes([seg_ret.res.result EXCEPT ![i].null = FALSE], i,
                   seg_ret.res.tableFilters)

\* the calls that read or write block_id or the versions array
SegmentCalls == {"Update", "IndexScan", "Scan", "Select", "ToTemporary"}

\* a thread is inside ToTemporary, between taking the exclusive lock and
\* releasing it
Converting == \E th \in Threads : thread[th].pc = "ToTemporary"

\* C24: every read of block_id or of the versions array happens with the lock
\* of the segment held, every write with it held exclusively: while one thread
\* holds the lock exclusively, no call of another thread reads or writes
\* block_id or a version chain.
C24_NoAccessBesideExclusiveHolder ==
    [][(lock.exclusive /\ Converting /\ seg_ret' # seg_ret /\ seg_ret'.op \in SegmentCalls)
         => /\ seg_ret'.op = "ToTemporary"
            /\ thread[seg_ret'.txn].pc = "ToTemporary"]_vars

====
